---- MODULE Spec2Model ----
(***************************************************************************)
(* Circuit breaker engine of the weather service                           *)
(* (internal/infrastructure/circuitbreaker/breaker.go): the per-dependency *)
(* CircuitBreaker state machine and the Manager registry.                  *)
(*                                                                         *)
(* Time is an integer clock.  time.Time{} (the zero time) is ZeroTime,     *)
(* which lies before every clock reading.  A critical section that runs    *)
(* under the exclusive lock (mu.Lock) is one atomic action; State() runs   *)
(* under the shared lock (mu.RLock) although currentState writes, so a due *)
(* transition found by State() is applied in a second step, which lets     *)
(* several readers apply it concurrently.                                  *)
(***************************************************************************)
EXTENDS Integers, Sequences, FiniteSets, TLC

\* ------------------------------------------------------------- bounds ----
NumCallers == 2
MaxTime    == 2
MaxCount   == 3

\* ---------------------------------------------------------- constants ----
StateClosed   == 0
StateOpen     == 1
StateHalfOpen == 2

ZeroTime == -1

ErrCircuitOpen     == "circuit breaker is open"
ErrTooManyRequests == "too many requests"

Callers == 1 .. NumCallers
Names   == {"nws-api", "geocoding-api"}

\* Errors the wrapped operation can return; nil is "nil".
OpErrors   == {"errUpstream", "errCanceled"}
OpOutcomes == {"nil"} \cup OpErrors \cup {"panic"}

\* FailureRatio is a float64; the model uses dyadic rationals num/den, which
\* float64 represents exactly, so the float comparison is the exact one.
Ratio(n, d) == [num |-> n, den |-> d]

MkConfig(maxReq, interval, timeout, ratio, minReq) ==
    [MaxRequests |-> maxReq, Interval |-> interval, Timeout |-> timeout,
     FailureRatio |-> ratio, MinimumRequests |-> minReq]

\* The configuration main.go gives the "nws-api" breaker: MaxRequests 3,
\* Interval 10s, Timeout 30s, FailureRatio 0.5, MinimumRequests 3.  One
\* clock unit is 30s; the Interval, a fraction of it, is rounded up to one
\* unit.
ScenarioConfig == MkConfig(3, 1, 1, Ratio(1, 2), 3)

Configs ==
    { MkConfig(2, 0, 1, Ratio(1, 2), 2),
      MkConfig(1, 1, 1, Ratio(1, 2), 1),
      MkConfig(2, 2, 1, Ratio(1, 1), 0),
      MkConfig(0, 0, 0, Ratio(1, 2), 3) }

\* The configurations GetBreaker is called with.
MgrConfigs ==
    { MkConfig(1, 0, 0, Ratio(1, 2), 1),
      MkConfig(2, 0, 1, Ratio(1, 2), 2) }

\* ------------------------------------------------------------- Counts ----
ZeroCounts ==
    [Requests |-> 0, TotalSuccesses |-> 0, TotalFailures |-> 0,
     ConsecutiveSuccesses |-> 0, ConsecutiveFailures |-> 0]

\* ----------------------------------------------------- CircuitBreaker ----
NewCircuitBreaker(config, t) ==
    [config |-> config, state |-> StateClosed, generation |-> 0,
     counts |-> ZeroCounts, expiry |-> ZeroTime, lastStateChange |-> t]

IsZero(t)    == t = ZeroTime
Before(a, b) == a < b

\* Mutant of toNewGeneration: the generation number is kept.
toNewGeneration_KeepGeneration(cb, t) ==
    LET c == [cb EXCEPT !.counts = ZeroCounts]
    IN  CASE c.state = StateClosed ->
               IF c.config.Interval > 0
               THEN [c EXCEPT !.expiry = t + c.config.Interval]
               ELSE c
          [] c.state = StateOpen ->
               [c EXCEPT !.expiry = t + c.config.Timeout]
          [] OTHER ->
               [c EXCEPT !.expiry = ZeroTime]

\* Mutant of toNewGeneration: the new generation keeps the old counts.
toNewGeneration_KeepCounts(cb, t) ==
    LET c == [cb EXCEPT !.generation = @ + 1]
    IN  CASE c.state = StateClosed ->
               IF c.config.Interval > 0
               THEN [c EXCEPT !.expiry = t + c.config.Interval]
               ELSE c
          [] c.state = StateOpen ->
               [c EXCEPT !.expiry = t + c.config.Timeout]
          [] OTHER ->
               [c EXCEPT !.expiry = ZeroTime]

toNewGeneration(cb, t) ==
    LET c == [cb EXCEPT !.generation = @ + 1, !.counts = ZeroCounts]
    IN  CASE c.state = StateClosed ->
               IF c.config.Interval > 0
               THEN [c EXCEPT !.expiry = t + c.config.Interval]
               ELSE c
          [] c.state = StateOpen ->
               [c EXCEPT !.expiry = t + c.config.Timeout]
          [] OTHER ->
               [c EXCEPT !.expiry = ZeroTime]

setState(cb, state, t) ==
    IF cb.state = state
    THEN cb
    ELSE LET c == toNewGeneration(
                     [cb EXCEPT !.state = state, !.lastStateChange = t], t)
         IN  IF state = StateOpen
             THEN [c EXCEPT !.expiry = t + c.config.Timeout]
             ELSE [c EXCEPT !.expiry = ZeroTime]

\* Mutant of currentState: an expired Open breaker closes without probing.
currentState_SkipProbe(cb, t) ==
    CASE cb.state = StateClosed ->
           IF ~IsZero(cb.expiry) /\ Before(cb.expiry, t)
           THEN toNewGeneration(cb, t)
           ELSE cb
      [] cb.state = StateOpen ->
           IF Before(cb.expiry, t) THEN setState(cb, StateClosed, t) ELSE cb
      [] OTHER -> cb

\* Mutant of currentState: an Open breaker is never moved to HalfOpen.
currentState_NoProbe(cb, t) ==
    IF cb.state = StateClosed /\ ~IsZero(cb.expiry) /\ Before(cb.expiry, t)
    THEN toNewGeneration(cb, t)
    ELSE cb

\* currentState: the breaker after the lazy expiry check; the returned pair
\* (state, generation) is read from the result.
currentState(cb, t) ==
    CASE cb.state = StateClosed ->
           IF ~IsZero(cb.expiry) /\ Before(cb.expiry, t)
           THEN toNewGeneration(cb, t)
           ELSE cb
      [] cb.state = StateOpen ->
           IF Before(cb.expiry, t) THEN setState(cb, StateHalfOpen, t) ELSE cb
      [] OTHER -> cb

\* Mutant of shouldTrip: MinimumRequests itself is still below the floor.
shouldTrip_MinimumExclusive(cb) ==
    IF cb.counts.Requests <= cb.config.MinimumRequests
    THEN FALSE
    ELSE cb.counts.TotalFailures * cb.config.FailureRatio.den
           >= cb.config.FailureRatio.num * cb.counts.Requests

\* Mutant of shouldTrip: the MinimumRequests floor is not applied.
shouldTrip_NoMinimum(cb) ==
    IF cb.counts.Requests = 0
    THEN cb.counts.TotalFailures > 0
    ELSE cb.counts.TotalFailures * cb.config.FailureRatio.den
           >= cb.config.FailureRatio.num * cb.counts.Requests

\* Mutant of shouldTrip: a FailureRatio of 0 switches the breaker off.
shouldTrip_ZeroRatioDisabled(cb) ==
    IF cb.counts.Requests < cb.config.MinimumRequests
         \/ cb.config.FailureRatio.num = 0
    THEN FALSE
    ELSE IF cb.counts.Requests = 0
         THEN cb.counts.TotalFailures > 0
         ELSE cb.counts.TotalFailures * cb.config.FailureRatio.den
                >= cb.config.FailureRatio.num * cb.counts.Requests

\* float64(TotalFailures) / float64(Requests) >= FailureRatio.  With
\* Requests = 0 the quotient is NaN (0/0, never >=) or +Inf (n/0).
shouldTrip(cb) ==
    IF cb.counts.Requests < cb.config.MinimumRequests
    THEN FALSE
    ELSE IF cb.counts.Requests = 0
         THEN cb.counts.TotalFailures > 0
         ELSE cb.counts.TotalFailures * cb.config.FailureRatio.den
                >= cb.config.FailureRatio.num * cb.counts.Requests

\* Mutant of onSuccess: a success in Closed keeps the failure streak.
onSuccess_KeepStreak(cb, state, t) ==
    CASE state = StateClosed ->
           [cb EXCEPT !.counts.TotalSuccesses = @ + 1,
                      !.counts.ConsecutiveSuccesses = @ + 1]
      [] state = StateHalfOpen ->
           LET c == [cb EXCEPT !.counts.TotalSuccesses = @ + 1,
                               !.counts.ConsecutiveSuccesses = @ + 1]
           IN  IF c.counts.ConsecutiveSuccesses >= c.config.MaxRequests
               THEN setState(c, StateClosed, t)
               ELSE c
      [] OTHER -> cb

\* Mutant of onSuccess: HalfOpen closes one success too late.
onSuccess_OffByOne(cb, state, t) ==
    CASE state = StateClosed ->
           [cb EXCEPT !.counts.TotalSuccesses = @ + 1,
                      !.counts.ConsecutiveSuccesses = @ + 1,
                      !.counts.ConsecutiveFailures = 0]
      [] state = StateHalfOpen ->
           LET c == [cb EXCEPT !.counts.TotalSuccesses = @ + 1,
                               !.counts.ConsecutiveSuccesses = @ + 1]
           IN  IF c.counts.ConsecutiveSuccesses > c.config.MaxRequests
               THEN setState(c, StateClosed, t)
               ELSE c
      [] OTHER -> cb

\* Mutant of onSuccess: a HalfOpen success is counted and nothing more.
onSuccess_CountOnly(cb, state, t) ==
    CASE state = StateClosed ->
           [cb EXCEPT !.counts.TotalSuccesses = @ + 1,
                      !.counts.ConsecutiveSuccesses = @ + 1,
                      !.counts.ConsecutiveFailures = 0]
      [] state = StateHalfOpen ->
           [cb EXCEPT !.counts.TotalSuccesses = @ + 1,
                      !.counts.ConsecutiveSuccesses = @ + 1]
      [] OTHER -> cb

\* Mutant of onSuccess: a Closed success evaluates the trip condition.
onSuccess_TripOnRatio(cb, state, t) ==
    CASE state = StateClosed ->
           LET c == [cb EXCEPT !.counts.TotalSuccesses = @ + 1,
                               !.counts.ConsecutiveSuccesses = @ + 1,
                               !.counts.ConsecutiveFailures = 0]
           IN  IF shouldTrip(c) THEN setState(c, StateOpen, t) ELSE c
      [] state = StateHalfOpen ->
           LET c == [cb EXCEPT !.counts.TotalSuccesses = @ + 1,
                               !.counts.ConsecutiveSuccesses = @ + 1]
           IN  IF c.counts.ConsecutiveSuccesses >= c.config.MaxRequests
               THEN setState(c, StateClosed, t)
               ELSE c
      [] OTHER -> cb

onSuccess(cb, state, t) ==
    CASE state = StateClosed ->
           [cb EXCEPT !.counts.TotalSuccesses = @ + 1,
                      !.counts.ConsecutiveSuccesses = @ + 1,
                      !.counts.ConsecutiveFailures = 0]
      [] state = StateHalfOpen ->
           LET c == [cb EXCEPT !.counts.TotalSuccesses = @ + 1,
                               !.counts.ConsecutiveSuccesses = @ + 1]
           IN  IF c.counts.ConsecutiveSuccesses >= c.config.MaxRequests
               THEN setState(c, StateClosed, t)
               ELSE c
      [] OTHER -> cb

\* Mutant of onFailure: a HalfOpen failure is counted and reopens the
\* breaker only when the trip condition holds.
onFailure_RatioInHalfOpen(cb, state, t) ==
    LET c == [cb EXCEPT !.counts.TotalFailures = @ + 1,
                        !.counts.ConsecutiveFailures = @ + 1,
                        !.counts.ConsecutiveSuccesses = 0]
    IN  IF state \in {StateClosed, StateHalfOpen}
        THEN IF shouldTrip(c) THEN setState(c, StateOpen, t) ELSE c
        ELSE cb

onFailure(cb, state, t) ==
    CASE state = StateClosed ->
           LET c == [cb EXCEPT !.counts.TotalFailures = @ + 1,
                               !.counts.ConsecutiveFailures = @ + 1,
                               !.counts.ConsecutiveSuccesses = 0]
           IN  IF shouldTrip(c) THEN setState(c, StateOpen, t) ELSE c
      [] state = StateHalfOpen ->
           setState(cb, StateOpen, t)
      [] OTHER -> cb

\* Mutant of beforeRequest: an admitted call is not counted.
beforeRequest_Uncounted(cb, t) ==
    LET c == currentState(cb, t)
    IN  IF c.state = StateOpen
        THEN [cb |-> c, generation |-> c.generation, err |-> ErrCircuitOpen]
        ELSE IF c.state = StateHalfOpen
                /\ c.counts.Requests >= c.config.MaxRequests
        THEN [cb |-> c, generation |-> c.generation,
              err |-> ErrTooManyRequests]
        ELSE [cb |-> c, generation |-> c.generation, err |-> "nil"]

\* Mutant of beforeRequest: an Open breaker admits.
beforeRequest_AdmitOpen(cb, t) ==
    LET c == currentState(cb, t)
    IN  IF c.state = StateHalfOpen
           /\ c.counts.Requests >= c.config.MaxRequests
        THEN [cb |-> c, generation |-> c.generation,
              err |-> ErrTooManyRequests]
        ELSE [cb |-> [c EXCEPT !.counts.Requests = @ + 1],
              generation |-> c.generation, err |-> "nil"]

\* Mutant of beforeRequest: HalfOpen admits one request too many.
beforeRequest_OffByOne(cb, t) ==
    LET c == currentState(cb, t)
    IN  IF c.state = StateOpen
        THEN [cb |-> c, generation |-> c.generation, err |-> ErrCircuitOpen]
        ELSE IF c.state = StateHalfOpen
                /\ c.counts.Requests > c.config.MaxRequests
        THEN [cb |-> c, generation |-> c.generation,
              err |-> ErrTooManyRequests]
        ELSE [cb |-> [c EXCEPT !.counts.Requests = @ + 1],
              generation |-> c.generation, err |-> "nil"]

\* beforeRequest: the breaker afterwards, the generation and the error.
\* Mutant of beforeRequest: a rejected call is counted as a request.
beforeRequest_CountsRejected(cb, t) ==
    LET c == currentState(cb, t)
        n == [c EXCEPT !.counts.Requests = @ + 1]
    IN  IF c.state = StateOpen
        THEN [cb |-> n, generation |-> c.generation, err |-> ErrCircuitOpen]
        ELSE IF c.state = StateHalfOpen
                /\ c.counts.Requests >= c.config.MaxRequests
        THEN [cb |-> n, generation |-> c.generation,
              err |-> ErrTooManyRequests]
        ELSE [cb |-> n, generation |-> c.generation, err |-> "nil"]

beforeRequest(cb, t) ==
    LET c == currentState(cb, t)
    IN  IF c.state = StateOpen
        THEN [cb |-> c, generation |-> c.generation, err |-> ErrCircuitOpen]
        ELSE IF c.state = StateHalfOpen
                /\ c.counts.Requests >= c.config.MaxRequests
        THEN [cb |-> c, generation |-> c.generation,
              err |-> ErrTooManyRequests]
        ELSE [cb |-> [c EXCEPT !.counts.Requests = @ + 1],
              generation |-> c.generation, err |-> "nil"]

\* Mutant of afterRequest: the generation is not compared.
afterRequest_NoGenerationCheck(cb, before, success, t) ==
    LET c == currentState(cb, t)
    IN  IF success
        THEN onSuccess(c, c.state, t)
        ELSE onFailure(c, c.state, t)

afterRequest(cb, before, success, t) ==
    LET c == currentState(cb, t)
    IN  IF c.generation # before
        THEN c
        ELSE IF success
             THEN onSuccess(c, c.state, t)
             ELSE onFailure(c, c.state, t)

\* State.String().
String(s) ==
    CASE s = StateClosed   -> "closed"
      [] s = StateOpen     -> "open"
      [] s = StateHalfOpen -> "half-open"
      [] OTHER             -> "unknown"

\* The Stats value built by Stats(): the fields are copied as they are, no
\* currentState call is made.
StatsOf(cb) ==
    [State                |-> String(cb.state),
     Requests             |-> cb.counts.Requests,
     TotalSuccesses       |-> cb.counts.TotalSuccesses,
     TotalFailures        |-> cb.counts.TotalFailures,
     ConsecutiveSuccesses |-> cb.counts.ConsecutiveSuccesses,
     ConsecutiveFailures  |-> cb.counts.ConsecutiveFailures,
     LastStateChange      |-> cb.lastStateChange]

\* ------------------------------------------------------------ Manager ----
NoBreaker == 0

\* ---------------------------------------------------------------- state ----
VARIABLES
    now,        \* the wall clock, time.Now()
    heap,       \* the CircuitBreaker objects constructed so far; a *CircuitBreaker
                \* is an index into heap
    registry,   \* Manager.breakers: name -> *CircuitBreaker (NoBreaker: absent)
    probes,     \* history: per breaker, operations invoked since it last
                \* entered HalfOpen
    pc,         \* per caller: position in GetBreaker / Execute / State
    held,       \* per caller: the *CircuitBreaker it uses (GetBreaker's result)
    gen,        \* per caller: Execute's local `generation`
    err,        \* per caller: Execute's local `err`; its return value at return
    op,         \* history: per caller, outcome of fn() in the current Execute
    acct,       \* history: per caller, what afterRequest did with its report
    rd,         \* per caller inside State() with a due transition: its `now`
    gbArgs,     \* per caller: the (name, config) of its last GetBreaker call
    stats       \* what the last Stats() / GetStats() call returned, and what
                \* the Stats() call just before it returned, while nothing
                \* else has happened since

vars == <<now, heap, registry, probes, pc, held, gen, err, op, acct, rd,
          gbArgs, stats>>

NoAcct == [done |-> FALSE, stale |-> FALSE, from |-> StateClosed,
           to |-> StateClosed]

NoRd   == [t |-> ZeroTime, to |-> "idle", raced |-> FALSE]
NoArgs == [name |-> "", config |-> MkConfig(0, 0, 0, Ratio(0, 1), 0)]

\* No Stats() / GetStats() value is at hand: some other step came after it.
NoStats == [call |-> "none", b |-> NoBreaker, prev |-> <<>>, last |-> <<>>]

\* cb.mu is held shared by a caller that found a due transition in State()
\* and has not applied it yet.
RLocked(b) == {q \in Callers : pc[q] = "rlocked" /\ held[q] = b}

\* Mutant of CanLock: Execute keeps cb.mu locked while fn() runs.
CanLock_HeldWhileRunning(b) ==
    /\ RLocked(b) = {}
    /\ \A q \in Callers : ~(pc[q] = "fn" /\ held[q] = b)

\* m.mu is held shared by a GetStats call that is reading the breakers.
RegistryRLocked == {q \in Callers : pc[q] = "gs"}

\* cb.mu.Lock() can be taken only when nobody holds cb.mu.
CanLock(b) == RLocked(b) = {}

\* probes after a step that takes breaker b from old to new.
ProbesAfter(b, old, new, admitted) ==
    [probes EXCEPT ![b] =
        IF new.state = StateHalfOpen
        THEN (IF old.state = StateHalfOpen THEN @ ELSE 0)
             + (IF admitted THEN 1 ELSE 0)
        ELSE 0]

\* ---------------------------------------------------------------- clock ----
Tick ==
    /\ now < MaxTime
    /\ now' = now + 1
    /\ stats' = NoStats
    /\ UNCHANGED <<heap, registry, probes, pc, held, gen, err, op, acct, rd,
                   gbArgs>>

\* Execute or State() returns to its caller: the locals go out of scope.
\* The value Execute returns is err[p] in the state the step leaves.
Return(p) ==
    /\ gen' = [gen EXCEPT ![p] = 0]
    /\ err' = [err EXCEPT ![p] = "nil"]
    /\ op' = [op EXCEPT ![p] = "none"]
    /\ acct' = [acct EXCEPT ![p] = NoAcct]

\* Locals after a State() call that goes from pc `from` to pc `to`.
AfterState(p, to) ==
    IF to = "idle" /\ pc'[p] = "idle" THEN Return(p)
    ELSE UNCHANGED <<gen, err, op, acct>>

\* -------------------------------------------------------------- State() ----
\* State(): RLock; currentState(time.Now()); RUnlock.  When nothing is due
\* the call only reads and is one step from -> to.  When a transition is
\* due the caller holds the shared lock (pc "rlocked") and writes it in
\* StateApply.
StateRead(p, from, to) ==
    /\ pc[p] = from
    /\ held[p] # NoBreaker
    /\ LET cb == heap[held[p]]
       IN  IF currentState(cb, now) = cb
           THEN /\ pc' = [pc EXCEPT ![p] = to]
                /\ rd' = rd
           ELSE /\ pc' = [pc EXCEPT ![p] = "rlocked"]
                /\ rd' = [rd EXCEPT ![p] =
                            [t |-> now, to |-> to, raced |-> FALSE]]
    /\ stats' = NoStats
    /\ UNCHANGED <<now, heap, registry, probes, held, gbArgs>>

\* The breakers a reader that lost the race can leave behind: it wrote
\* nothing more (setState saw the new state), or it wrote its transition
\* again, with generation++ lost or not.
RacedOutcomes(cb, t) ==
    IF cb.state = StateClosed
    THEN { [cb EXCEPT !.generation = @ + d, !.counts = ZeroCounts,
                      !.expiry = t + cb.config.Interval] : d \in {0, 1} }
    ELSE {cb} \cup
         { [cb EXCEPT !.lastStateChange = t, !.generation = @ + d,
                      !.counts = ZeroCounts, !.expiry = ZeroTime]
             : d \in {0, 1} }

\* Mutant of StateApply: the state-change log line goes through the
\* Manager and takes m.mu.Lock().
StateApply_TakesRegistryLock(p) ==
    /\ RegistryRLocked = {}
    /\ pc[p] = "rlocked"
    /\ LET b  == held[p]
           cb == heap[b]
           r  == rd[p]
       IN  /\ \E c \in (IF r.raced THEN RacedOutcomes(cb, r.t)
                                   ELSE {currentState(cb, r.t)}) :
                 /\ heap' = [heap EXCEPT ![b] = c]
                 /\ probes' = ProbesAfter(b, cb, c, FALSE)
           /\ pc' = [pc EXCEPT ![p] = r.to]
           /\ rd' = [q \in Callers |->
                       IF q = p THEN NoRd
                       ELSE IF q \in RLocked(b)
                            THEN [rd[q] EXCEPT !.raced = TRUE]
                            ELSE rd[q]]
           /\ IF r.to = "idle" THEN Return(p)
              ELSE UNCHANGED <<gen, err, op, acct>>
    /\ stats' = NoStats
    /\ UNCHANGED <<now, registry, held, gbArgs>>

StateApply(p) ==
    /\ pc[p] = "rlocked"
    /\ LET b  == held[p]
           cb == heap[b]
           r  == rd[p]
       IN  /\ \E c \in (IF r.raced THEN RacedOutcomes(cb, r.t)
                                   ELSE {currentState(cb, r.t)}) :
                 /\ heap' = [heap EXCEPT ![b] = c]
                 /\ probes' = ProbesAfter(b, cb, c, FALSE)
           /\ pc' = [pc EXCEPT ![p] = r.to]
           /\ rd' = [q \in Callers |->
                       IF q = p THEN NoRd
                       ELSE IF q \in RLocked(b)
                            THEN [rd[q] EXCEPT !.raced = TRUE]
                            ELSE rd[q]]
           /\ IF r.to = "idle" THEN Return(p)
              ELSE UNCHANGED <<gen, err, op, acct>>
    /\ stats' = NoStats
    /\ UNCHANGED <<now, registry, held, gbArgs>>

\* A State() call made from outside Execute (health and stats polling).
StateCall(p) ==
    /\ StateRead(p, "idle", "idle")
    /\ UNCHANGED <<gen, err, op, acct>>

\* -------------------------------------------------------------- Execute ----
\* Execute, lines 79-86: the span attribute reads cb.State().
ExecuteStart(p) ==
    /\ held[p] # NoBreaker
    /\ heap[held[p]].counts.Requests
         + Cardinality({q \in Callers : pc[q] = "before" /\ held[q] = held[p]})
         < MaxCount
    /\ StateRead(p, "idle", "before")
    /\ UNCHANGED <<gen, err, op, acct>>

\* Mutant of BeforeRequest: the breakers count their requests in one shared
\* Counts.
BeforeRequest_SharedCounts(p) ==
    /\ pc[p] = "before"
    /\ CanLock(held[p])
    /\ LET b == held[p]
           r == beforeRequest(heap[b], now)
       IN  /\ heap' = [a \in DOMAIN heap |->
                         IF a = b THEN r.cb
                         ELSE IF r.err = "nil"
                              THEN [heap[a] EXCEPT !.counts.Requests = @ + 1]
                              ELSE heap[a]]
           /\ probes' = ProbesAfter(b, heap[b], r.cb, r.err = "nil")
           /\ gen' = [gen EXCEPT ![p] = r.generation]
           /\ err' = [err EXCEPT ![p] = r.err]
           /\ pc' = [pc EXCEPT ![p] = IF r.err = "nil" THEN "fn" ELSE "rej"]
           /\ op' = [op EXCEPT ![p] = IF r.err = "nil" THEN "running" ELSE @]
    /\ stats' = NoStats
    /\ UNCHANGED <<now, registry, held, acct, rd, gbArgs>>

\* Execute, line 88: generation, err := cb.beforeRequest().
BeforeRequest(p) ==
    /\ pc[p] = "before"
    /\ CanLock(held[p])
    /\ LET b == held[p]
           r == beforeRequest(heap[b], now)
       IN  /\ heap' = [heap EXCEPT ![b] = r.cb]
           /\ probes' = ProbesAfter(b, heap[b], r.cb, r.err = "nil")
           /\ gen' = [gen EXCEPT ![p] = r.generation]
           /\ err' = [err EXCEPT ![p] = r.err]
           /\ pc' = [pc EXCEPT ![p] = IF r.err = "nil" THEN "fn" ELSE "rej"]
           /\ op' = [op EXCEPT ![p] = IF r.err = "nil" THEN "running" ELSE @]
    /\ stats' = NoStats
    /\ UNCHANGED <<now, registry, held, acct, rd, gbArgs>>

\* Execute, lines 89-97: the rejection is logged with cb.State(); return err.
Reject(p) ==
    /\ StateRead(p, "rej", "idle")
    /\ AfterState(p, "idle")

\* Mutant of Complete: a panic is not reported to the breaker.
Complete_PanicUncounted(p, o) ==
    /\ pc[p] = "fn"
    /\ CanLock(held[p])
    /\ LET b == held[p]
           s == currentState(heap[b], now)
           c == IF o = "panic" THEN heap[b]
                ELSE afterRequest(heap[b], gen[p], o = "nil", now)
       IN  /\ pc' = [pc EXCEPT ![p] =
                       IF o = "panic" THEN "panicking" ELSE "span"]
           /\ err' = [err EXCEPT ![p] = IF o = "panic" THEN "nil" ELSE o]
           /\ op' = [op EXCEPT ![p] = o]
           /\ gen' = [gen EXCEPT ![p] = 0]
           /\ heap' = [heap EXCEPT ![b] = c]
           /\ probes' = ProbesAfter(b, heap[b], c, FALSE)
           /\ acct' = [acct EXCEPT ![p] =
                         [done |-> TRUE, stale |-> s.generation # gen[p],
                          from |-> s.state, to |-> c.state]]
    /\ stats' = NoStats
    /\ UNCHANGED <<now, registry, held, rd, gbArgs>>

\* Mutant of Complete: a cancellation is taken for a success.
Complete_CancelIsSuccess(p, o) ==
    /\ pc[p] = "fn"
    /\ CanLock(held[p])
    /\ LET b == held[p]
           s == currentState(heap[b], now)
           c == afterRequest(heap[b], gen[p],
                             o \in {"nil", "errCanceled"}, now)
       IN  /\ pc' = [pc EXCEPT ![p] =
                       IF o = "panic" THEN "panicking" ELSE "span"]
           /\ err' = [err EXCEPT ![p] =
                        IF o \in {"panic", "errCanceled"} THEN "nil" ELSE o]
           /\ op' = [op EXCEPT ![p] = o]
           /\ gen' = [gen EXCEPT ![p] = 0]
           /\ heap' = [heap EXCEPT ![b] = c]
           /\ probes' = ProbesAfter(b, heap[b], c, FALSE)
           /\ acct' = [acct EXCEPT ![p] =
                         [done |-> TRUE, stale |-> s.generation # gen[p],
                          from |-> s.state, to |-> c.state]]
    /\ stats' = NoStats
    /\ UNCHANGED <<now, registry, held, rd, gbArgs>>

\* Mutant of Complete: afterRequest compares the generation before it takes
\* the lock, when the captured generation may still have been current.
Complete_CheckOutsideLock(p, o) ==
    /\ pc[p] = "fn"
    /\ CanLock(held[p])
    /\ LET b == held[p]
           s == currentState(heap[b], now)
       IN  \E before \in {gen[p], s.generation} :
             LET c == afterRequest(heap[b], before, o = "nil", now)
             IN  /\ pc' = [pc EXCEPT ![p] =
                             IF o = "panic" THEN "panicking" ELSE "span"]
                 /\ err' = [err EXCEPT ![p] =
                              IF o = "panic" THEN "nil" ELSE o]
                 /\ op' = [op EXCEPT ![p] = o]
                 /\ gen' = [gen EXCEPT ![p] = 0]
                 /\ heap' = [heap EXCEPT ![b] = c]
                 /\ probes' = ProbesAfter(b, heap[b], c, FALSE)
                 /\ acct' = [acct EXCEPT ![p] =
                               [done |-> TRUE,
                                stale |-> s.generation # gen[p],
                                from |-> s.state, to |-> c.state]]
    /\ stats' = NoStats
    /\ UNCHANGED <<now, registry, held, rd, gbArgs>>

\* Mutant of Complete: the deferred function reports the call once more
\* after afterRequest has run.
Complete_AccountsTwice(p, o) ==
    /\ pc[p] = "fn"
    /\ CanLock(held[p])
    /\ LET b == held[p]
           s == currentState(heap[b], now)
           c == afterRequest(afterRequest(heap[b], gen[p], o = "nil", now),
                             gen[p], FALSE, now)
       IN  /\ pc' = [pc EXCEPT ![p] =
                       IF o = "panic" THEN "panicking" ELSE "span"]
           /\ err' = [err EXCEPT ![p] = IF o = "panic" THEN "nil" ELSE o]
           /\ op' = [op EXCEPT ![p] = o]
           /\ gen' = [gen EXCEPT ![p] = 0]
           /\ heap' = [heap EXCEPT ![b] = c]
           /\ probes' = ProbesAfter(b, heap[b], c, FALSE)
           /\ acct' = [acct EXCEPT ![p] =
                         [done |-> TRUE, stale |-> s.generation # gen[p],
                          from |-> s.state, to |-> c.state]]
    /\ stats' = NoStats
    /\ UNCHANGED <<now, registry, held, rd, gbArgs>>

\* Execute, lines 99-109: err = fn() runs outside the lock and returns nil or
\* an error, or panics; then cb.afterRequest(generation, err == nil), or from
\* the deferred recover cb.afterRequest(generation, false) followed by
\* panic(e).  fn's return touches only locals, so it is one step with the
\* accounting; `generation` is not read again afterwards.
Complete(p, o) ==
    /\ pc[p] = "fn"
    /\ CanLock(held[p])
    /\ LET b == held[p]
           s == currentState(heap[b], now)
           c == afterRequest(heap[b], gen[p], o = "nil", now)
       IN  /\ pc' = [pc EXCEPT ![p] =
                       IF o = "panic" THEN "panicking" ELSE "span"]
           /\ err' = [err EXCEPT ![p] = IF o = "panic" THEN "nil" ELSE o]
           /\ op' = [op EXCEPT ![p] = o]
           /\ gen' = [gen EXCEPT ![p] = 0]
           /\ heap' = [heap EXCEPT ![b] = c]
           /\ probes' = ProbesAfter(b, heap[b], c, FALSE)
           /\ acct' = [acct EXCEPT ![p] =
                         [done |-> TRUE, stale |-> s.generation # gen[p],
                          from |-> s.state, to |-> c.state]]
    /\ stats' = NoStats
    /\ UNCHANGED <<now, registry, held, rd, gbArgs>>

\* Execute, lines 111-116: the span attribute reads cb.State(); return err.
ExecuteReturn(p) ==
    /\ StateRead(p, "span", "idle")
    /\ AfterState(p, "idle")

\* Execute, line 103: panic(e) in the deferred function unwinds Execute; no
\* value is returned and lines 108-116 do not run.
Propagate(p) ==
    /\ pc[p] = "panicking"
    /\ pc' = [pc EXCEPT ![p] = "idle"]
    /\ Return(p)
    /\ stats' = NoStats
    /\ UNCHANGED <<now, heap, registry, probes, held, rd, gbArgs>>

\* ---------------------------------------------------------------- Stats ----
\* Mutant of StatsCall: Stats() applies the lazy state recompute.
StatsCall_Recompute(p) ==
    /\ pc[p] = "idle"
    /\ held[p] # NoBreaker
    /\ CanLock(held[p])
    /\ LET c == currentState(heap[held[p]], now)
       IN  /\ heap' = [heap EXCEPT ![held[p]] = c]
           /\ probes' = ProbesAfter(held[p], heap[held[p]], c, FALSE)
           /\ stats' = [call |-> "Stats", b |-> held[p],
                        prev |-> IF stats.call = "Stats" /\ stats.b = held[p]
                                 THEN stats.last ELSE <<>>,
                        last |-> <<StatsOf(c)>>]
    /\ UNCHANGED <<now, registry, pc, held, gen, err, op, acct, rd, gbArgs>>

\* Mutant of StatsCall: Stats() reads the counters and clears them.
StatsCall_ReadAndReset(p) ==
    /\ pc[p] = "idle"
    /\ held[p] # NoBreaker
    /\ CanLock(held[p])
    /\ heap' = [heap EXCEPT ![held[p]].counts = ZeroCounts]
    /\ stats' = [call |-> "Stats", b |-> held[p],
                 prev |-> IF stats.call = "Stats" /\ stats.b = held[p]
                          THEN stats.last ELSE <<>>,
                 last |-> <<StatsOf(heap[held[p]])>>]
    /\ UNCHANGED <<now, registry, probes, pc, held, gen, err, op, acct, rd,
                   gbArgs>>

\* The breakers that the State() calls now in their write-back on breaker b
\* are writing.
Writing(b) ==
    UNION { IF rd[q].raced THEN RacedOutcomes(heap[b], rd[q].t)
                           ELSE {currentState(heap[b], rd[q].t)}
              : q \in RLocked(b) }

\* The values a field-by-field copy can return when each field is read
\* from o or from n.
Torn(o, n) ==
    { [State |-> a.State, Requests |-> c1.Requests,
       TotalSuccesses |-> c2.TotalSuccesses,
       TotalFailures |-> c3.TotalFailures,
       ConsecutiveSuccesses |-> c4.ConsecutiveSuccesses,
       ConsecutiveFailures |-> c5.ConsecutiveFailures,
       LastStateChange |-> l.LastStateChange]
        : a \in {o, n}, c1 \in {o, n}, c2 \in {o, n}, c3 \in {o, n},
          c4 \in {o, n}, c5 \in {o, n}, l \in {o, n} }

\* What Stats() can return for breaker b.  cb.mu.RLock() excludes the
\* writers that take cb.mu.Lock(), not State(), which writes under RLock:
\* while a State() call is in its write-back, each field Stats() reads is
\* the one from before the write or the one written.
Snapshots(b) ==
    {StatsOf(heap[b])}
      \cup UNION { Torn(StatsOf(heap[b]), StatsOf(c)) : c \in Writing(b) }

\* Stats(), lines 263-276: under cb.mu.RLock() the fields are copied.
StatsCall(p) ==
    /\ pc[p] = "idle"
    /\ held[p] # NoBreaker
    /\ \E v \in Snapshots(held[p]) :
          stats' = [call |-> "Stats", b |-> held[p],
                    prev |-> IF stats.call = "Stats" /\ stats.b = held[p]
                             THEN stats.last ELSE <<>>,
                    last |-> <<v>>]
    /\ UNCHANGED <<now, heap, registry, probes, pc, held, gen, err, op, acct,
                   rd, gbArgs>>

\* GetStats(), lines 322-332: under m.mu.RLock() the Stats() of every
\* registered breaker, by name.
GetStats(p) ==
    /\ pc[p] = "idle"
    /\ LET names == {m \in Names : registry[m] # NoBreaker}
       IN  \E f \in [names -> UNION {Snapshots(registry[n]) : n \in names}] :
             /\ \A n \in names : f[n] \in Snapshots(registry[n])
             /\ stats' = [call |-> "GetStats", b |-> NoBreaker,
                          prev |-> <<>>, last |-> <<f>>]
    /\ UNCHANGED <<now, heap, registry, probes, pc, held, gen, err, op, acct,
                   rd, gbArgs>>

\* ----------------------------------------------------------- GetBreaker ----
\* Mutant of GetBreakerRLock: a hit installs the configuration passed.
GetBreakerRLock_Reconfigure(p, name, config) ==
    /\ pc[p] = "idle"
    /\ IF registry[name] # NoBreaker
       THEN /\ held' = [held EXCEPT ![p] = registry[name]]
            /\ pc' = pc
            /\ heap' = [heap EXCEPT ![registry[name]].config = config]
       ELSE /\ held' = [held EXCEPT ![p] = NoBreaker]
            /\ pc' = [pc EXCEPT ![p] = "gb_lock"]
            /\ heap' = heap
    /\ gbArgs' = [gbArgs EXCEPT ![p] = [name |-> name, config |-> config]]
    /\ stats' = NoStats
    /\ UNCHANGED <<now, registry, probes, gen, err, op, acct, rd>>

\* GetBreaker, lines 302-307: the lookup under m.mu.RLock().
GetBreakerRLock(p, name, config) ==
    /\ pc[p] = "idle"
    /\ IF registry[name] # NoBreaker
       THEN /\ held' = [held EXCEPT ![p] = registry[name]]
            /\ pc' = pc
       ELSE /\ held' = [held EXCEPT ![p] = NoBreaker]
            /\ pc' = [pc EXCEPT ![p] = "gb_lock"]
    /\ gbArgs' = [gbArgs EXCEPT ![p] = [name |-> name, config |-> config]]
    /\ stats' = NoStats
    /\ UNCHANGED <<now, heap, registry, probes, gen, err, op, acct, rd>>

\* Mutant of GetBreakerLock: no second lookup under the exclusive lock.
GetBreakerLock_NoRecheck(p) ==
    /\ pc[p] = "gb_lock"
    /\ heap' = Append(heap, NewCircuitBreaker(gbArgs[p].config, now))
    /\ probes' = Append(probes, 0)
    /\ registry' = [registry EXCEPT ![gbArgs[p].name] = Len(heap) + 1]
    /\ held' = [held EXCEPT ![p] = Len(heap) + 1]
    /\ pc' = [pc EXCEPT ![p] = "idle"]
    /\ stats' = NoStats
    /\ UNCHANGED <<now, gen, err, op, acct, rd, gbArgs>>

\* GetBreaker, lines 309-319: the second lookup and the construction under
\* m.mu.Lock().
GetBreakerLock(p) ==
    /\ pc[p] = "gb_lock"
    /\ LET name == gbArgs[p].name
       IN  IF registry[name] # NoBreaker
           THEN /\ held' = [held EXCEPT ![p] = registry[name]]
                /\ UNCHANGED <<heap, registry, probes>>
           ELSE /\ heap' = Append(heap,
                                  NewCircuitBreaker(gbArgs[p].config, now))
                /\ probes' = Append(probes, 0)
                /\ registry' = [registry EXCEPT ![name] = Len(heap) + 1]
                /\ held' = [held EXCEPT ![p] = Len(heap) + 1]
    /\ pc' = [pc EXCEPT ![p] = "idle"]
    /\ stats' = NoStats
    /\ UNCHANGED <<now, gen, err, op, acct, rd, gbArgs>>

\* -------------------------------------------------------- specifications ----
\* The server after start-up (cmd/server/main.go): one Manager, the breaker
\* "nws-api" obtained once and shared by every request.
InitWith(configs) ==
    /\ now = 0
    /\ \E config \in configs :
          /\ heap = <<NewCircuitBreaker(config, 0)>>
          /\ gbArgs = [p \in Callers |->
                         [name |-> "nws-api", config |-> config]]
    /\ registry = [n \in Names |-> IF n = "nws-api" THEN 1 ELSE NoBreaker]
    /\ probes = <<0>>
    /\ pc = [p \in Callers |-> "idle"]
    /\ held = [p \in Callers |-> 1]
    /\ gen = [p \in Callers |-> 0]
    /\ err = [p \in Callers |-> "nil"]
    /\ op = [p \in Callers |-> "none"]
    /\ acct = [p \in Callers |-> NoAcct]
    /\ rd = [p \in Callers |-> NoRd]
    /\ stats = NoStats

Init == InitWith(Configs)

Next ==
    \/ Tick
    \/ \E p \in Callers : StateCall(p)
    \/ \E p \in Callers : StateApply(p)
    \/ \E p \in Callers : ExecuteStart(p)
    \/ \E p \in Callers : BeforeRequest(p)
    \/ \E p \in Callers : Reject(p)
    \/ \E p \in Callers : \E o \in OpOutcomes : Complete(p, o)
    \/ \E p \in Callers : ExecuteReturn(p)
    \/ \E p \in Callers : Propagate(p)

Spec == Init /\ [][Next]_vars

\* The server as main.go configures it.
InitScenario == InitWith({ScenarioConfig})

SpecScenario == InitScenario /\ [][Next]_vars

\* The server with FailureRatio 0 and a MinimumRequests of 0, 1, 2 or 3.
RatioZeroConfigs ==
    { MkConfig(1, 0, 1, Ratio(0, 1), m) : m \in 0 .. 3 }

InitRatioZero == InitWith(RatioZeroConfigs)

SpecRatioZero == InitRatioZero /\ [][Next]_vars

\* The server with a dependency that recovers: operations fail (or panic)
\* only while the clock reads LastFailure or less, which leaves the clock
\* room to pass the longest Timeout afterwards.  The clock advances, the
\* goroutines inside Execute are scheduled, every operation returns and new
\* Execute calls keep arriving: weak fairness on each of these steps.
RecoveryConfigs == {c \in Configs \cup MgrConfigs : c.MaxRequests >= 1}

LastFailure == MaxTime - 2

InitRecovery == InitWith(RecoveryConfigs)

Recovering(p, o) ==
    /\ o # "nil" => now <= LastFailure
    /\ Complete(p, o)

NextRecovery ==
    \/ Tick
    \/ \E p \in Callers : StateCall(p)
    \/ \E p \in Callers : StateApply(p)
    \/ \E p \in Callers : ExecuteStart(p)
    \/ \E p \in Callers : BeforeRequest(p)
    \/ \E p \in Callers : Reject(p)
    \/ \E p \in Callers : \E o \in OpOutcomes : Recovering(p, o)
    \/ \E p \in Callers : ExecuteReturn(p)
    \/ \E p \in Callers : Propagate(p)

FairRecovery ==
    /\ WF_vars(Tick)
    /\ \A p \in Callers :
          /\ WF_vars(ExecuteStart(p))
          /\ WF_vars(StateApply(p))
          /\ WF_vars(BeforeRequest(p))
          /\ WF_vars(Reject(p))
          /\ WF_vars(\E o \in OpOutcomes : Recovering(p, o))
          /\ WF_vars(ExecuteReturn(p))
          /\ WF_vars(Propagate(p))

SpecRecovery == InitRecovery /\ [][NextRecovery]_vars /\ FairRecovery

\* The same server with its stats endpoint polled (statsHandler calls
\* GetStats) and Stats() read on the breaker.
NextStats ==
    \/ Next
    \/ \E p \in Callers : StatsCall(p)
    \/ \E p \in Callers : GetStats(p)

SpecStats == InitScenario /\ [][NextStats]_vars

\* A process whose Manager holds two breakers, one per dependency name,
\* each obtained with GetBreaker; every caller uses one of them.
PairConfig == MkConfig(1, 0, 1, Ratio(1, 2), 1)

InitPair ==
    /\ now = 0
    /\ heap = <<NewCircuitBreaker(PairConfig, 0),
                NewCircuitBreaker(PairConfig, 0)>>
    /\ registry = [n \in Names |-> IF n = "nws-api" THEN 1 ELSE 2]
    /\ probes = <<0, 0>>
    /\ pc = [p \in Callers |-> "idle"]
    /\ held \in [Callers -> {1, 2}]
    /\ gbArgs = [p \in Callers |->
                   [name |-> IF held[p] = 1 THEN "nws-api"
                                            ELSE "geocoding-api",
                    config |-> PairConfig]]
    /\ gen = [p \in Callers |-> 0]
    /\ err = [p \in Callers |-> "nil"]
    /\ op = [p \in Callers |-> "none"]
    /\ acct = [p \in Callers |-> NoAcct]
    /\ rd = [p \in Callers |-> NoRd]
    /\ stats = NoStats

SpecPair == InitPair /\ [][NextStats]_vars

\* A process that starts with an empty Manager (NewManager): callers obtain
\* their breaker with GetBreaker and then use it.  The registry involves no
\* timer; this specification explores it at one clock reading.
InitMgr ==
    /\ now = 0
    /\ heap = <<>>
    /\ registry = [n \in Names |-> NoBreaker]
    /\ probes = <<>>
    /\ pc = [p \in Callers |-> "idle"]
    /\ held = [p \in Callers |-> NoBreaker]
    /\ gen = [p \in Callers |-> 0]
    /\ err = [p \in Callers |-> "nil"]
    /\ op = [p \in Callers |-> "none"]
    /\ acct = [p \in Callers |-> NoAcct]
    /\ rd = [p \in Callers |-> NoRd]
    /\ gbArgs = [p \in Callers |-> NoArgs]
    /\ stats = NoStats

NextMgr ==
    \/ \E p \in Callers : \E name \in Names : \E config \in MgrConfigs :
          GetBreakerRLock(p, name, config)
    \/ \E p \in Callers : GetBreakerLock(p)
    \/ \E p \in Callers : ExecuteStart(p)
    \/ \E p \in Callers : BeforeRequest(p)
    \/ \E p \in Callers : Reject(p)
    \/ \E p \in Callers : \E o \in OpOutcomes : Complete(p, o)
    \/ \E p \in Callers : ExecuteReturn(p)
    \/ \E p \in Callers : Propagate(p)

SpecMgr == InitMgr /\ [][NextMgr]_vars

\* The Manager over sony/gobreaker wrappers (unnamed/part_006): the registry
\* is a plain map with no lock.  GetBreaker reads the map (line 171) and, on
\* a miss, constructs a wrapper and writes the map (lines 175-177); other
\* goroutines run between the two.  A map write that meets another
\* goroutine inside its own insertion is a data race: the write lands, or
\* the runtime aborts the process (fatal error: concurrent map writes).
NewWrapper(name, cfg) == [name |-> name, config |-> cfg]

WrapperGetBreakerLookup(p, name, cfg) ==
    /\ pc[p] = "idle"
    /\ IF registry[name] # NoBreaker
       THEN /\ held' = [held EXCEPT ![p] = registry[name]]
            /\ pc' = pc
       ELSE /\ held' = [held EXCEPT ![p] = NoBreaker]
            /\ pc' = [pc EXCEPT ![p] = "wgb_store"]
    /\ gbArgs' = [gbArgs EXCEPT ![p] = [name |-> name, config |-> cfg]]
    /\ stats' = NoStats
    /\ UNCHANGED <<now, heap, registry, probes, gen, err, op, acct, rd>>

WrapperGetBreakerStore(p) ==
    /\ pc[p] = "wgb_store"
    /\ \/ /\ heap' = Append(heap,
                            NewWrapper(gbArgs[p].name, gbArgs[p].config))
          /\ probes' = Append(probes, 0)
          /\ registry' = [registry EXCEPT ![gbArgs[p].name] = Len(heap) + 1]
          /\ held' = [held EXCEPT ![p] = Len(heap) + 1]
          /\ pc' = [pc EXCEPT ![p] = "idle"]
       \/ /\ \E q \in Callers \ {p} : pc[q] = "wgb_store"
          /\ pc' = [q \in Callers |-> "fatal"]
          /\ UNCHANGED <<heap, probes, registry, held>>
    /\ stats' = NoStats
    /\ UNCHANGED <<now, gen, err, op, acct, rd, gbArgs>>

NextWrapper ==
    \/ \E p \in Callers : \E name \in Names : \E cfg \in MgrConfigs :
          WrapperGetBreakerLookup(p, name, cfg)
    \/ \E p \in Callers : WrapperGetBreakerStore(p)

SpecWrapper == InitMgr /\ [][NextWrapper]_vars

\* The whole subsystem: a Manager that starts empty, callers that obtain
\* the "nws-api" breaker with GetBreaker and run Execute, State(), Stats()
\* and GetStats() on it while the clock advances.  Here the registry lock is
\* explicit: GetStats holds m.mu.RLock() (pc "gs") while it takes each
\* cb.mu.RLock() in Stats(), the only place where one lock is taken inside
\* another; GetBreaker's m.mu.Lock() waits for it.  sync.RWMutex blocks a
\* new RLock while a Lock call is waiting, so Stats() inside GetStats waits
\* while a State() call holds cb.mu and an Execute may be waiting to lock
\* it.
LockWaiting(b) ==
    /\ RLocked(b) # {}
    /\ \E q \in Callers : held[q] = b /\ pc[q] \in {"before", "fn"}

\* GetStats, lines 323-324: m.mu.RLock().  A GetBreaker call that is in
\* m.mu.Lock() (pc "gb_lock": line 309 follows the RUnlock of line 307 with
\* nothing shared in between) keeps new readers out.
GetStatsRLock(p) ==
    /\ pc[p] = "idle"
    /\ \A q \in Callers : pc[q] # "gb_lock"
    /\ pc' = [pc EXCEPT ![p] = "gs"]
    /\ stats' = NoStats
    /\ UNCHANGED <<now, heap, registry, probes, held, gen, err, op, acct, rd,
                   gbArgs>>

\* GetStats, lines 326-331: breaker.Stats() of every registered breaker,
\* then m.mu.RUnlock() on return.
GetStatsRead(p) ==
    /\ pc[p] = "gs"
    /\ LET names == {m \in Names : registry[m] # NoBreaker}
       IN  /\ \A n \in names : ~LockWaiting(registry[n])
           /\ \E f \in [names -> UNION {Snapshots(registry[n]) : n \in names}] :
                 /\ \A n \in names : f[n] \in Snapshots(registry[n])
                 /\ stats' = [call |-> "GetStats", b |-> NoBreaker,
                              prev |-> <<>>, last |-> <<f>>]
    /\ pc' = [pc EXCEPT ![p] = "idle"]
    /\ UNCHANGED <<now, heap, registry, probes, held, gen, err, op, acct, rd,
                   gbArgs>>

\* GetBreaker, line 309: m.mu.Lock() waits for the readers of the registry.
GetBreakerCreate(p) ==
    /\ RegistryRLocked = {}
    /\ GetBreakerLock(p)

NextSystem ==
    \/ Tick
    \/ \E p \in Callers : GetBreakerRLock(p, "nws-api", PairConfig)
    \/ \E p \in Callers : GetBreakerCreate(p)
    \/ \E p \in Callers : GetStatsRLock(p)
    \/ \E p \in Callers : GetStatsRead(p)
    \/ \E p \in Callers : StatsCall(p)
    \/ \E p \in Callers : StateCall(p)
    \/ \E p \in Callers : StateApply(p)
    \/ \E p \in Callers : ExecuteStart(p)
    \/ \E p \in Callers : BeforeRequest(p)
    \/ \E p \in Callers : Reject(p)
    \/ \E p \in Callers : \E o \in OpOutcomes : Complete(p, o)
    \/ \E p \in Callers : ExecuteReturn(p)
    \/ \E p \in Callers : Propagate(p)

\* A goroutine inside a call is scheduled, an unlocked mutex is handed to a
\* waiter, and the wrapped operation returns.
FairSystem ==
    \A p \in Callers :
        /\ WF_vars(GetBreakerCreate(p))
        /\ WF_vars(GetStatsRead(p))
        /\ WF_vars(StateApply(p))
        /\ WF_vars(BeforeRequest(p))
        /\ WF_vars(Reject(p))
        /\ WF_vars(\E o \in OpOutcomes : Complete(p, o))
        /\ WF_vars(ExecuteReturn(p))
        /\ WF_vars(Propagate(p))

SpecSystem == InitMgr /\ [][NextSystem]_vars /\ FairSystem

\* ======================================================== properties ====
Breakers == DOMAIN heap

\* The breaker caller p works on.
Cb(p) == heap[held[p]]

\* The breaker p's completion acts on: after the lazy recompute.
View(p) == currentState(Cb(p), now)

\* Caller p's admission check (beforeRequest) runs in this step.
AdmissionCheck(p) == pc[p] = "before" /\ pc'[p] # "before"

\* Caller p's operation ends with outcome o and is accounted in this step.
Failures == OpOutcomes \ {"nil"}

\* Execute returns to caller p in this step; err[p] is the value returned.
ExecuteReturns(p) ==
    /\ pc'[p] = "idle"
    /\ \/ pc[p] \in {"rej", "span"}
       \/ pc[p] = "rlocked" /\ rd[p].to = "idle"
                            /\ (op[p] # "none" \/ err[p] # "nil")

Elapsed(cb) == now > cb.lastStateChange + cb.config.Timeout

\* requests >= minimumRequestsToTrip and failures/requests >= threshold.
TripCondition(cb, failures) ==
    /\ cb.counts.Requests >= cb.config.MinimumRequests
    /\ cb.counts.Requests > 0
    /\ failures * cb.config.FailureRatio.den
         >= cb.config.FailureRatio.num * cb.counts.Requests

\* ------------------------------------------------------------------ C1 ----
\* C1 as stated: every completion (success or failure) accounted in Closed
\* against the current generation moves the breaker to Open if and only if,
\* with the counters as updated by it, requests >= minimumRequestsToTrip and
\* totalFailures/requests >= failureRatioThreshold.
C1_AsStated ==
    [][\A p \in Callers :
       \A o \in OpOutcomes :
         (Complete(p, o) /\ View(p).state = StateClosed
                         /\ View(p).generation = gen[p])
         => (heap'[held[p]].state = StateOpen
             <=> TripCondition(View(p),
                     View(p).counts.TotalFailures
                       + (IF o \in Failures THEN 1 ELSE 0)))]_vars

\* C1 amended: a failure accounted in Closed against the current generation
\* moves the breaker to Open if and only if, with the counters as updated by
\* it, requests >= minimumRequestsToTrip and totalFailures/requests >=
\* failureRatioThreshold; a success accounted in Closed leaves it Closed.
C1_TripOnFailure ==
    [][\A p \in Callers :
       \A o \in OpOutcomes :
         (Complete(p, o) /\ View(p).state = StateClosed
                         /\ View(p).generation = gen[p])
         => IF o \in Failures
            THEN heap'[held[p]].state = StateOpen
                 <=> TripCondition(View(p), View(p).counts.TotalFailures + 1)
            ELSE heap'[held[p]].state = StateClosed]_vars

\* A failure accounted in Closed has just tripped the breaker while another
\* call of the same generation was still in flight.
C1_Witness ==
    \E p \in Callers : \E q \in Callers :
        /\ pc[p] = "span" /\ err[p] \in OpErrors
        /\ acct[p].done /\ ~acct[p].stale
        /\ acct[p].from = StateClosed /\ acct[p].to = StateOpen
        /\ Cb(p).state = StateOpen
        /\ pc[q] = "fn" /\ gen[q] < Cb(p).generation

\* ------------------------------------------------------------------ C2 ----
\* C2: while the breaker is Open and openTimeout has not elapsed since it
\* entered Open, an admission check returns ErrCircuitOpen, the operation is
\* not invoked and the breaker stays Open.
C2_OpenRejects ==
    [][\A p \in Callers :
         (AdmissionCheck(p) /\ Cb(p).state = StateOpen /\ ~Elapsed(Cb(p)))
         => /\ pc'[p] = "rej"
            /\ err'[p] = ErrCircuitOpen
            /\ op'[p] = "none"
            /\ heap'[held[p]] = Cb(p)]_vars

\* Two concurrent callers are both rejected by a breaker that reopened from
\* HalfOpen.
C2_Witness ==
    /\ \A p \in Callers :
          pc[p] = "rej" /\ err[p] = ErrCircuitOpen /\ op[p] = "none"
    /\ heap[1].state = StateOpen /\ heap[1].generation >= 3
    /\ ~Elapsed(heap[1])

\* ------------------------------------------------------------------ C3 ----
\* C3: with maxHalfOpenRequests >= 1, the first admission check after
\* openTimeout has elapsed on an Open breaker (the breaker still Open, or
\* already moved to HalfOpen by a State() call and no probe admitted yet)
\* leaves the breaker HalfOpen and admits the call: the operation is invoked
\* and no error is returned by the admission.
C3_ProbeAdmitted ==
    [][\A p \in Callers :
         (/\ AdmissionCheck(p)
          /\ Cb(p).config.MaxRequests >= 1
          /\ \/ Cb(p).state = StateOpen /\ Elapsed(Cb(p))
             \/ Cb(p).state = StateHalfOpen /\ probes[held[p]] = 0)
         => /\ heap'[held[p]].state = StateHalfOpen
            /\ pc'[p] = "fn"
            /\ op'[p] = "running"
            /\ err'[p] = "nil"
            /\ gen'[p] = heap'[held[p]].generation
            /\ heap'[held[p]].counts.Requests = 1]_vars

\* A call was admitted as the first probe and its operation is running.
C3_Witness ==
    \E p \in Callers :
        /\ pc[p] = "fn" /\ op[p] = "running"
        /\ Cb(p).state = StateHalfOpen /\ Cb(p).generation = gen[p]
        /\ Cb(p).counts.Requests = 1 /\ probes[held[p]] = 1
        /\ Cb(p).config.Timeout >= 1

\* ------------------------------------------------------------------ C4 ----
\* C4: within one HalfOpen period at most maxHalfOpenRequests operations are
\* invoked, and an admission check that runs in HalfOpen after that many
\* were admitted returns ErrTooManyRequests without invoking the operation.
C4_ProbeLimit ==
    [][/\ \A b \in DOMAIN heap' :
            heap'[b].state = StateHalfOpen
            => probes'[b] <= heap'[b].config.MaxRequests
       /\ \A p \in Callers :
            (/\ AdmissionCheck(p)
             /\ Cb(p).state = StateHalfOpen
             /\ probes[held[p]] >= Cb(p).config.MaxRequests)
            => /\ pc'[p] = "rej"
               /\ err'[p] = ErrTooManyRequests
               /\ op'[p] = "none"
               /\ heap'[held[p]] = Cb(p)]_vars

\* The probe window is full, one probe is still in flight and a further
\* call was rejected.
C4_Witness ==
    \E p \in Callers : \E q \in Callers :
        /\ pc[p] = "rej" /\ err[p] = ErrTooManyRequests
        /\ pc[q] = "fn" /\ gen[q] = Cb(q).generation
        /\ held[p] = held[q]
        /\ Cb(p).state = StateHalfOpen
        /\ Cb(p).config.MaxRequests >= 1
        /\ probes[held[p]] = Cb(p).config.MaxRequests

\* ------------------------------------------------------------------ C5 ----
\* C5: a failure (error or panic) of a probe admitted in the current HalfOpen
\* generation moves the breaker to Open at that completion, with expiry =
\* completion time + openTimeout.
C5_ProbeFailureReopens ==
    [][\A p \in Callers :
       \A o \in Failures :
         (/\ Complete(p, o)
          /\ Cb(p).state = StateHalfOpen /\ Cb(p).generation = gen[p])
         => /\ heap'[held[p]].state = StateOpen
            /\ heap'[held[p]].expiry = now + Cb(p).config.Timeout
            /\ heap'[held[p]].lastStateChange = now
            /\ heap'[held[p]].generation > Cb(p).generation]_vars

\* A probe failure has reopened the breaker while another probe of the same
\* HalfOpen generation is still in flight.
C5_Witness ==
    \E p \in Callers : \E q \in Callers :
        /\ pc[p] = "span" /\ err[p] \in OpErrors
        /\ acct[p].done /\ ~acct[p].stale
        /\ acct[p].from = StateHalfOpen /\ acct[p].to = StateOpen
        /\ pc[q] = "fn" /\ gen[q] = Cb(p).generation - 1
        /\ Cb(p).state = StateOpen
        /\ Cb(p).config.Timeout >= 1
        /\ Cb(p).expiry = now + Cb(p).config.Timeout

\* ------------------------------------------------------------------ C6 ----
\* C6: a successful probe completion of the current HalfOpen generation that
\* brings the number of successful completions to maxHalfOpenRequests moves
\* the breaker to Closed with all five counters 0; an earlier one leaves it
\* HalfOpen.
C6_ProbeSuccessCloses ==
    [][\A p \in Callers :
         (/\ Complete(p, "nil")
          /\ Cb(p).state = StateHalfOpen /\ Cb(p).generation = gen[p])
         => IF Cb(p).counts.TotalSuccesses + 1 >= Cb(p).config.MaxRequests
            THEN /\ heap'[held[p]].state = StateClosed
                 /\ heap'[held[p]].counts = ZeroCounts
            ELSE /\ heap'[held[p]].state = StateHalfOpen
                 /\ heap'[held[p]].generation = gen[p]]_vars

\* The second of two successful probes has just closed the breaker.
C6_Witness ==
    \E p \in Callers :
        /\ pc[p] = "span" /\ err[p] = "nil"
        /\ acct[p].done /\ ~acct[p].stale
        /\ acct[p].from = StateHalfOpen /\ acct[p].to = StateClosed
        /\ Cb(p).config.MaxRequests = 2
        /\ Cb(p).state = StateClosed /\ Cb(p).counts = ZeroCounts

\* ------------------------------------------------------------------ C7 ----
\* C7: a completion whose admission generation differs from the breaker's
\* generation after the lazy recompute changes no counter and no state: the
\* breaker is left as the recompute alone leaves it, and in HalfOpen exactly
\* as it was, with the probe window untouched.
C7_StaleDiscarded ==
    [][\A p \in Callers :
       \A o \in OpOutcomes :
         (Complete(p, o) /\ View(p).generation # gen[p])
         => /\ heap'[held[p]] = View(p)
            /\ Cb(p).state = StateHalfOpen
               => (heap'[held[p]] = Cb(p) /\ probes' = probes)]_vars

\* The failure of a call admitted in Closed was reported while the breaker
\* was HalfOpen, and the breaker is still HalfOpen with an empty window.
C7_Witness ==
    \E p \in Callers :
        /\ pc[p] = "span" /\ err[p] \in OpErrors
        /\ acct[p].done /\ acct[p].stale
        /\ acct[p].from = StateHalfOpen /\ acct[p].to = StateHalfOpen
        /\ Cb(p).state = StateHalfOpen /\ Cb(p).generation = 2
        /\ Cb(p).counts = ZeroCounts /\ probes[held[p]] = 0

\* ------------------------------------------------------------------ C8 ----
\* C8: starting from an empty registry, each name is constructed at most
\* once, no breaker is registered under two names, and every GetBreaker call
\* that has returned holds the breaker registered under its name.
C8_OneBreakerPerName ==
    /\ Len(heap) = Cardinality({n \in Names : registry[n] # NoBreaker})
    /\ \A n \in Names : \A m \in Names :
          (registry[n] # NoBreaker /\ registry[n] = registry[m]) => n = m
    /\ \A p \in Callers :
          (pc[p] # "gb_lock" /\ held[p] # NoBreaker)
          => held[p] = registry[gbArgs[p].name]

\* Two callers missed the first lookup of the same name; one has registered
\* the breaker and the other is about to take the exclusive lock.
C8_Witness ==
    \E p \in Callers : \E q \in Callers :
        /\ pc[p] = "gb_lock" /\ pc[q] = "idle"
        /\ gbArgs[p].name = gbArgs[q].name
        /\ gbArgs[p].config # gbArgs[q].config
        /\ held[q] # NoBreaker /\ held[q] = registry[gbArgs[p].name]
        /\ heap[held[q]].config = gbArgs[q].config

\* ------------------------------------------------------------------ C9 ----
\* C9: GetBreaker for a registered name returns the registered breaker and
\* changes neither it (configuration, state, generation, counts) nor the
\* registry, whatever config is passed.
C9_HitIgnoresConfig ==
    [][\A p \in Callers :
         (/\ \/ \E n \in Names : \E c \in MgrConfigs :
                  GetBreakerRLock(p, n, c)
             \/ GetBreakerLock(p)
          /\ registry[gbArgs'[p].name] # NoBreaker)
         => /\ heap' = heap
            /\ registry' = registry
            /\ held'[p] = registry[gbArgs'[p].name]]_vars

\* A caller holds a used breaker (it has tripped) that it got with a
\* configuration other than the one the breaker was created with.
C9_Witness ==
    \E p \in Callers :
        /\ pc[p] = "idle" /\ held[p] # NoBreaker
        /\ held[p] = registry[gbArgs[p].name]
        /\ heap[held[p]].config # gbArgs[p].config
        /\ heap[held[p]].state = StateOpen

C11_PanicAccounted ==
    [][\A p \in Callers :
         /\ Complete(p, "panic")
            => /\ pc'[p] = "panicking" /\ op'[p] = "panic" /\ acct'[p].done
               /\ (View(p).generation = gen[p] /\ View(p).state = StateClosed)
                  => IF TripCondition(View(p),
                                      View(p).counts.TotalFailures + 1)
                     THEN heap'[held[p]].state = StateOpen
                     ELSE /\ heap'[held[p]].state = StateClosed
                          /\ heap'[held[p]].counts.TotalFailures
                               = View(p).counts.TotalFailures + 1
                          /\ heap'[held[p]].counts.ConsecutiveFailures
                               = View(p).counts.ConsecutiveFailures + 1
               /\ (View(p).generation = gen[p]
                     /\ View(p).state = StateHalfOpen)
                  => /\ heap'[held[p]].state = StateOpen
                     /\ heap'[held[p]].expiry = now + Cb(p).config.Timeout
               /\ View(p).generation # gen[p] => heap'[held[p]] = View(p)
         /\ pc[p] = "panicking"
            => /\ op[p] = "panic" /\ acct[p].done
               /\ pc'[p] \in {"panicking", "idle"}
               /\ pc'[p] = "idle" => heap' = heap]_vars

\* A probe has panicked: the breaker is Open again and the panic is on its
\* way to the caller.
C11_Witness ==
    \E p \in Callers :
        /\ pc[p] = "panicking" /\ op[p] = "panic"
        /\ acct[p].done /\ ~acct[p].stale
        /\ acct[p].from = StateHalfOpen /\ acct[p].to = StateOpen
        /\ Cb(p).state = StateOpen /\ Cb(p).generation = 3

\* ----------------------------------------------------------------- C12 ----
\* The current Closed generation of cb began more than resetInterval ago.
\* (In the code a Closed generation begins at construction or at the
\* transition to Closed, and both set lastStateChange.)
IntervalElapsed(cb) ==
    /\ cb.state = StateClosed
    /\ cb.config.Interval > 0
    /\ now > cb.lastStateChange + cb.config.Interval

\* C12 as stated: in Closed with resetInterval > 0, once resetInterval has
\* elapsed since the Closed generation began, the next admission check
\* starts a new generation (Closed, generation + 1, counts zeroed before the
\* call is counted) and the next State() check finds the reset due.
C12_AsStated ==
    [][\A p \in Callers :
         /\ (AdmissionCheck(p) /\ IntervalElapsed(Cb(p)))
            => /\ heap'[held[p]].state = StateClosed
               /\ heap'[held[p]].generation = Cb(p).generation + 1
               /\ heap'[held[p]].counts
                    = [ZeroCounts EXCEPT !.Requests = 1]
         /\ (ExecuteStart(p) /\ IntervalElapsed(Cb(p)))
            => pc'[p] = "rlocked"]_vars

\* ----------------------------------------------------------------- C13 ----
\* C13: a breaker's generation never decreases; every step that changes its
\* state increases it, and so does toNewGeneration (the periodic reset)
\* from every reachable breaker; the calls in flight that hold the current
\* generation are all counted in requests (nothing was reset between their
\* admissions).
C13_GenerationMonotonic ==
    [][\A b \in DOMAIN heap :
         /\ heap'[b].generation >= heap[b].generation
         /\ heap'[b].state # heap[b].state
            => heap'[b].generation > heap[b].generation
         /\ toNewGeneration(heap[b], now).generation > heap[b].generation
         /\ toNewGeneration(heap[b], now).state = heap[b].state
         /\ Cardinality({p \in Callers :
                            /\ held'[p] = b /\ pc'[p] = "fn"
                            /\ gen'[p] = heap'[b].generation})
              <= heap'[b].counts.Requests]_vars

\* The breaker has gone Closed, Open, HalfOpen, Closed, Open while a call
\* admitted in its first generation is still in flight.
C13_Witness ==
    \E p \in Callers :
        /\ pc[p] = "fn" /\ gen[p] = 0
        /\ Cb(p).generation = 4 /\ Cb(p).state = StateOpen

\* ----------------------------------------------------------------- C14 ----
\* C14: every breaker is Closed when constructed, and the only state changes
\* are Closed->Open, Open->HalfOpen, HalfOpen->Closed and HalfOpen->Open.
C14_Transitions ==
    /\ \A b \in DOMAIN heap : heap[b].state = StateClosed
    /\ [][\A b \in DOMAIN heap' :
            IF b \in DOMAIN heap
            THEN \/ heap'[b].state = heap[b].state
                 \/ <<heap[b].state, heap'[b].state>>
                      \in { <<StateClosed, StateOpen>>,
                            <<StateOpen, StateHalfOpen>>,
                            <<StateHalfOpen, StateClosed>>,
                            <<StateHalfOpen, StateOpen>> }
            ELSE heap'[b].state = StateClosed]_vars

\* The breaker has been through Closed, Open, HalfOpen and is Closed again
\* with a success counted since.
C14_Witness ==
    /\ heap[1].state = StateClosed /\ heap[1].generation = 3
    /\ heap[1].counts.TotalSuccesses = 1
    /\ \A p \in Callers : pc[p] = "idle"

\* ----------------------------------------------------------------- C15 ----
\* C15: in every reachable state of every breaker,
\* totalSuccesses + totalFailures <= requests.
C15_CompletionsWithinRequests ==
    \A b \in DOMAIN heap :
        heap[b].counts.TotalSuccesses + heap[b].counts.TotalFailures
          <= heap[b].counts.Requests

\* A stale completion has been discarded while a probe of the current
\* generation is in flight: one request, no completion counted.
C15_Witness ==
    \E p \in Callers : \E q \in Callers :
        /\ pc[p] = "span" /\ acct[p].done /\ acct[p].stale
        /\ pc[q] = "fn" /\ held[q] = held[p] /\ gen[q] = Cb(q).generation
        /\ Cb(q).state = StateHalfOpen
        /\ Cb(q).counts.Requests = 1
        /\ Cb(q).counts.TotalSuccesses + Cb(q).counts.TotalFailures = 0

\* ----------------------------------------------------------------- C16 ----
\* consecutiveSuccesses and consecutiveFailures are not both nonzero and
\* neither exceeds its total.
StreaksExclusive(cb) ==
    /\ ~(cb.counts.ConsecutiveSuccesses > 0
           /\ cb.counts.ConsecutiveFailures > 0)
    /\ cb.counts.ConsecutiveSuccesses <= cb.counts.TotalSuccesses
    /\ cb.counts.ConsecutiveFailures <= cb.counts.TotalFailures

\* Caller p's operation ends in this step and is reported to the breaker;
\* op'[p] is its outcome.
Completes(p) == pc[p] = "fn" /\ pc'[p] # "fn"

\* C16: at most one of consecutiveSuccesses and consecutiveFailures is
\* nonzero and each is at most its total, in every state; after an accounted
\* success consecutiveFailures is 0 and after an accounted failure
\* consecutiveSuccesses is 0.
C16_Streaks ==
    /\ \A b \in DOMAIN heap : StreaksExclusive(heap[b])
    /\ [][/\ \A b \in DOMAIN heap' : StreaksExclusive(heap'[b])
          /\ \A p \in Callers :
                 (/\ Completes(p)
                  /\ View(p).generation = gen[p]
                  /\ View(p).state \in {StateClosed, StateHalfOpen})
                 => IF op'[p] = "nil"
                    THEN heap'[held[p]].counts.ConsecutiveFailures = 0
                    ELSE heap'[held[p]].counts.ConsecutiveSuccesses = 0]_vars

\* A success counted in Closed has ended a failure streak.
C16_Witness ==
    \E p \in Callers :
        /\ pc[p] = "span" /\ err[p] = "nil"
        /\ acct[p].done /\ ~acct[p].stale /\ acct[p].from = StateClosed
        /\ Cb(p).state = StateClosed
        /\ Cb(p).counts.TotalFailures >= 1
        /\ Cb(p).counts.ConsecutiveSuccesses = 1
        /\ Cb(p).counts.ConsecutiveFailures = 0

\* ----------------------------------------------------------------- C17 ----
\* C17: a Stats() or GetStats() call (a step that returns a Stats value), at
\* any time, leaves every breaker (state, generation, counts, expiry,
\* lastStateChange, configuration) and the registry unchanged.
C17_StatsPure ==
    [][stats'.call \in {"Stats", "GetStats"}
         => /\ heap' = heap
            /\ registry' = registry
            /\ probes' = probes]_vars

\* GetStats has returned for a breaker whose Open timeout is due and the
\* breaker is still Open.
C17_Witness ==
    /\ stats.call = "GetStats"
    /\ "nws-api" \in DOMAIN stats.last[1]
    /\ heap[1].state = StateOpen /\ Elapsed(heap[1])
    /\ heap[1].config.Timeout >= 1

\* ----------------------------------------------------------------- C18 ----
\* C18 as stated: the state a Stats() or GetStats() call reports for a
\* breaker is the state State() and an admission check at that instant act
\* on, the one after the lazy expiry check.
C18_AsStated ==
    [][\A p \in Callers :
         /\ StatsCall(p)
            => stats'.last[1].State = String(View(p).state)
         /\ GetStats(p)
            => \A n \in DOMAIN stats'.last[1] :
                  stats'.last[1][n].State
                    = String(currentState(heap[registry[n]], now).state)]_vars

\* ----------------------------------------------------------------- C19 ----
\* C19: a Stats() call that follows a Stats() call on the same breaker with
\* no other step and no elapsed time between them, and no State() call in
\* its write-back on that breaker, returns the same value in every field.
C19_StatsRepeatable ==
    (stats.call = "Stats" /\ stats.prev # <<>> /\ RLocked(stats.b) = {})
    => stats.prev = stats.last

\* Stats() was called twice in a row on a HalfOpen breaker with a probe in
\* flight.
C19_Witness ==
    /\ stats.call = "Stats" /\ stats.prev # <<>>
    /\ stats.last[1].State = "half-open"
    /\ stats.last[1].Requests = 1
    /\ \E q \in Callers : pc[q] = "fn" /\ held[q] = stats.b

\* ----------------------------------------------------------------- C20 ----
\* Caller p is the only one inside a call: the calls are sequential.
Sequential(p) == \A q \in Callers \ {p} : pc[q] = "idle"

\* C20: with MinimumRequests 3, FailureRatio 0.5, Timeout 30s, MaxRequests 3
\* and sequential calls: the third of three failing calls on the fresh
\* breaker leaves it Open; a call before the timeout has elapsed returns
\* ErrCircuitOpen and the operation is not invoked; the call after the
\* timeout has elapsed finds the breaker HalfOpen and is admitted; the third
\* of three successful probes closes it, and Stats() then reports state
\* "closed" and consecutiveFailures 0.
C20_Scenario ==
    [][\A p \in Callers :
         (Cb(p).config = ScenarioConfig /\ Sequential(p))
         => /\ (/\ \E o \in Failures : Complete(p, o)
                /\ Cb(p).generation = 0 /\ gen[p] = 0
                /\ Cb(p).counts.TotalSuccesses = 0
                /\ Cb(p).counts.TotalFailures = 2)
               => /\ heap'[held[p]].state = StateOpen
                  /\ heap'[held[p]].generation = 1
            /\ (/\ AdmissionCheck(p)
                /\ Cb(p).state = StateOpen /\ ~Elapsed(Cb(p)))
               => /\ err'[p] = ErrCircuitOpen /\ op'[p] = "none"
                  /\ pc'[p] = "rej"
                  /\ heap'[held[p]].state = StateOpen
            /\ (/\ ExecuteStart(p)
                /\ Cb(p).state = StateOpen /\ Elapsed(Cb(p)))
               => pc'[p] = "rlocked"
            /\ (/\ StateApply(p)
                /\ Cb(p).state = StateOpen /\ rd[p].to = "before")
               => /\ heap'[held[p]].state = StateHalfOpen
                  /\ pc'[p] = "before"
            /\ (/\ AdmissionCheck(p)
                /\ \/ Cb(p).state = StateOpen /\ Elapsed(Cb(p))
                   \/ Cb(p).state = StateHalfOpen
                       /\ Cb(p).counts.Requests < 3)
               => /\ heap'[held[p]].state = StateHalfOpen
                  /\ pc'[p] = "fn" /\ op'[p] = "running"
            /\ (/\ Complete(p, "nil")
                /\ Cb(p).state = StateHalfOpen
                /\ Cb(p).generation = gen[p])
               => IF Cb(p).counts.TotalSuccesses = 2
                  THEN /\ heap'[held[p]].state = StateClosed
                       /\ StatsOf(heap'[held[p]]).State = "closed"
                       /\ StatsOf(heap'[held[p]]).ConsecutiveFailures = 0
                  ELSE heap'[held[p]].state = StateHalfOpen]_vars

\* The third successful probe in a row has closed the breaker of the
\* scenario, which had tripped once; the other caller is idle.
C20_Witness ==
    \E p \in Callers :
        /\ Cb(p).config = ScenarioConfig /\ Sequential(p)
        /\ pc[p] = "span" /\ err[p] = "nil"
        /\ acct[p].done /\ ~acct[p].stale
        /\ acct[p].from = StateHalfOpen /\ acct[p].to = StateClosed
        /\ Cb(p).state = StateClosed /\ Cb(p).generation = 3
        /\ StatsOf(Cb(p)).State = "closed"
        /\ StatsOf(Cb(p)).ConsecutiveFailures = 0

\* ----------------------------------------------------------------- C21 ----
\* Caller p's operation fails in this step and the failure is accounted in
\* Closed state against the current generation.
FailureInClosed(p) ==
    /\ Completes(p) /\ op'[p] \in Failures
    /\ View(p).state = StateClosed /\ View(p).generation = gen[p]

\* C21 as stated: with FailureRatio 0 the first failure a Closed breaker
\* accounts moves it to Open, whatever MinimumRequests is.
C21_AsStated ==
    [][\A p \in Callers :
         (/\ FailureInClosed(p)
          /\ Cb(p).config.FailureRatio.num = 0
          /\ Cb(p).counts.TotalFailures = 0)
         => heap'[held[p]].state = StateOpen]_vars

\* C21: with FailureRatio 0 a failure accounted in Closed state moves the
\* breaker to Open if and only if requests (calls admitted in the
\* generation) >= MinimumRequests at that completion; with MinimumRequests
\* 0 or 1 that is the first failure accounted.
C21_RatioZero ==
    [][\A p \in Callers :
         (FailureInClosed(p) /\ Cb(p).config.FailureRatio.num = 0)
         => /\ heap'[held[p]].state = StateOpen
                <=> Cb(p).counts.Requests >= Cb(p).config.MinimumRequests
            /\ heap'[held[p]].state \in {StateClosed, StateOpen}
            /\ Cb(p).config.MinimumRequests <= 1
                => heap'[held[p]].state = StateOpen]_vars

\* With FailureRatio 0 and MinimumRequests 1 the first call failed and the
\* breaker is Open.
C21_Witness ==
    \E p \in Callers :
        /\ Cb(p).config.FailureRatio.num = 0
        /\ Cb(p).config.MinimumRequests = 1
        /\ Sequential(p) /\ pc[p] = "span" /\ op[p] \in Failures
        /\ acct[p].done /\ ~acct[p].stale
        /\ acct[p].from = StateClosed /\ acct[p].to = StateOpen
        /\ Cb(p).state = StateOpen /\ Cb(p).generation = 1

\* ----------------------------------------------------------------- C22 ----
\* C22: a step of a caller (of its Execute, State() or Stats() call) leaves
\* every breaker other than the one the caller uses unchanged in every
\* field; and the admission check on a breaker is decided by that breaker
\* alone, so a Closed breaker admits the call while another breaker is Open.
C22_Independent ==
    [][\A p \in Callers :
         /\ (pc'[p] # pc[p] \/ (stats'.call = "Stats" /\ stats'.b = held[p]))
            => \A b \in Breakers \ {held[p]} :
                  heap'[b] = heap[b] /\ probes'[b] = probes[b]
         /\ (/\ AdmissionCheck(p)
             /\ \E a \in Breakers \ {held[p]} : heap[a].state = StateOpen)
            => /\ heap'[held[p]] = beforeRequest(Cb(p), now).cb
               /\ err'[p] = beforeRequest(Cb(p), now).err
               /\ Cb(p).state = StateClosed
                   => pc'[p] = "fn" /\ op'[p] = "running"]_vars

\* The breaker "nws-api" is Open and rejects a call while a call admitted
\* by the Closed breaker "geocoding-api" is running.
C22_Witness ==
    \E p, q \in Callers :
        /\ held[p] = registry["nws-api"]
        /\ held[q] = registry["geocoding-api"] /\ held[q] # held[p]
        /\ Cb(p).state = StateOpen /\ Cb(p).generation = 1
        /\ pc[p] = "rej" /\ err[p] = ErrCircuitOpen
        /\ Cb(q).state = StateClosed /\ Cb(q).generation = 0
        /\ Cb(q).counts.Requests = 1
        /\ pc[q] = "fn"

\* ----------------------------------------------------------------- C23 ----
\* C23: with MaxRequests >= 1, when the clock keeps advancing, Execute calls
\* keep arriving, every admitted operation returns and operations succeed
\* from some time on, a breaker that is Open is Closed again later, with no
\* step other than those of Execute.
C23_Recovery ==
    (heap[1].state = StateOpen) ~> (heap[1].state = StateClosed)

\* A successful probe has closed the breaker, which had tripped: it went
\* Closed, Open, HalfOpen, Closed.
C23_Witness ==
    \E p \in Callers :
        /\ pc[p] = "span" /\ op[p] = "nil"
        /\ acct[p].done /\ ~acct[p].stale
        /\ acct[p].from = StateHalfOpen /\ acct[p].to = StateClosed
        /\ Cb(p).state = StateClosed /\ Cb(p).generation >= 3
        /\ Cb(p).config.MaxRequests >= 1
        /\ Cb(p).lastStateChange = now

\* ----------------------------------------------------------------- C24 ----
\* The counters of a fresh breaker after the first n calls of the
\* sequential pattern fail, succeed, fail, succeed, fail, none rejected.
PatternCounts(n) ==
    [Requests |-> n, TotalSuccesses |-> n \div 2,
     TotalFailures |-> (n + 1) \div 2,
     ConsecutiveSuccesses |-> IF n > 0 /\ n % 2 = 0 THEN 1 ELSE 0,
     ConsecutiveFailures |-> IF n % 2 = 1 THEN 1 ELSE 0]

\* C24 as stated: with the server's configuration (MinimumRequests 3,
\* FailureRatio 0.5) and sequential calls on the fresh breaker that fail,
\* succeed, fail, succeed, fail, every one of the five calls is admitted and
\* its completion leaves the breaker Closed.
C24_AsStated ==
    [][\A p \in Callers : \A n \in 0 .. 4 :
         (/\ Cb(p).config = ScenarioConfig /\ Sequential(p)
          /\ Cb(p).generation = 0)
         => /\ (AdmissionCheck(p) /\ Cb(p).counts = PatternCounts(n))
               => pc'[p] = "fn" /\ heap'[held[p]].state = StateClosed
            /\ (/\ Completes(p)
                /\ Cb(p).counts
                     = [PatternCounts(n) EXCEPT !.Requests = n + 1]
                /\ op'[p] \in (IF n % 2 = 0 THEN Failures ELSE {"nil"}))
               => /\ heap'[held[p]].state = StateClosed
                  /\ heap'[held[p]].counts
                       = [PatternCounts(n + 1)
                            EXCEPT !.Requests = n + 1]]_vars

\* ----------------------------------------------------------------- C25 ----
\* C25: a success accounted in Closed state against the current generation,
\* after any number of failures, leaves the breaker Closed in the same
\* generation with consecutiveFailures 0; it adds one to totalSuccesses and
\* consecutiveSuccesses and leaves totalFailures and requests as they were.
C25_SuccessStaysClosed ==
    [][\A p \in Callers :
         (/\ Completes(p) /\ op'[p] = "nil"
          /\ View(p).state = StateClosed /\ View(p).generation = gen[p])
         => /\ heap'[held[p]].state = StateClosed
            /\ heap'[held[p]].generation = Cb(p).generation
            /\ heap'[held[p]].counts
                 = [Cb(p).counts EXCEPT !.TotalSuccesses = @ + 1,
                                        !.ConsecutiveSuccesses = @ + 1,
                                        !.ConsecutiveFailures = 0]]_vars

\* A call succeeded on a Closed breaker that had accounted two failures.
C25_Witness ==
    \E p \in Callers :
        /\ pc[p] = "span" /\ op[p] = "nil"
        /\ acct[p].done /\ ~acct[p].stale
        /\ acct[p].from = StateClosed /\ acct[p].to = StateClosed
        /\ Cb(p).state = StateClosed
        /\ Cb(p).counts.TotalFailures = 2
        /\ Cb(p).counts.TotalSuccesses = 1
        /\ Cb(p).counts.ConsecutiveSuccesses = 1
        /\ Cb(p).counts.ConsecutiveFailures = 0

\* ----------------------------------------------------------------- C26 ----
\* C26 as stated: a step that writes a breaker's fields is taken by a caller
\* that holds the breaker's lock alone, also when several State() calls find
\* the Open timeout elapsed; and such a due transition is applied once: the
\* State() calls together raise the generation by one.
C26_AsStated ==
    [][\A b \in Breakers :
         /\ heap'[b] # heap[b] => Cardinality(RLocked(b)) <= 1
         /\ (heap[b].state = StateHalfOpen
               /\ \E p \in RLocked(b) : pc'[p] # "rlocked")
            => heap'[b].generation = heap[b].generation]_vars

\* ----------------------------------------------------------------- C27 ----
\* C27: while the operation of an admitted call is running (caller p at fn,
\* for as long as it stays there), every other call on the same breaker can
\* take its next step: an admission check, a completion with its
\* accounting, State(), Stats(), GetStats() and the returns of Execute; the
\* only wait is for a State() call that is writing, and that call can
\* finish.  A call the operation itself makes on the breaker is such a call
\* by another caller.
C27_RunsOutsideLock ==
    \A p \in Callers :
        pc[p] = "fn"
        => \A q \in Callers \ {p} :
              held[q] = held[p]
              => IF RLocked(held[p]) # {}
                 THEN \A r \in RLocked(held[p]) : ENABLED StateApply(r)
                 ELSE /\ pc[q] = "before" => ENABLED BeforeRequest(q)
                      /\ pc[q] = "fn"
                          => \A o \in OpOutcomes : ENABLED Complete(q, o)
                      /\ pc[q] = "rej" => ENABLED Reject(q)
                      /\ pc[q] = "span" => ENABLED ExecuteReturn(q)
                      /\ pc[q] = "idle"
                          => /\ ENABLED StateCall(q)
                             /\ ENABLED StatsCall(q)
                             /\ ENABLED GetStats(q)

\* While caller p's operation is still running, another call was admitted
\* by the same breaker, ran and was accounted.
C27_Witness ==
    \E p, q \in Callers :
        /\ p # q /\ held[p] = held[q]
        /\ pc[p] = "fn" /\ gen[p] = Cb(p).generation
        /\ pc[q] = "span" /\ acct[q].done /\ ~acct[q].stale
        /\ Cb(p).counts.Requests = 2
        /\ Cb(p).counts.TotalSuccesses + Cb(p).counts.TotalFailures = 1

\* ----------------------------------------------------------------- C28 ----
\* C28: completion accounting is one step: the breaker it leaves is decided
\* by the breaker it finds.  When the generation the call captured is the
\* generation of the breaker at that step (after the lazy recompute) the
\* counters and state are updated from that same breaker; otherwise nothing
\* is counted; and the step contains no step of another caller and no clock
\* step.
C28_AccountingAtomic ==
    [][\A p \in Callers :
         Completes(p)
         => /\ heap'[held[p]]
                 = IF View(p).generation # gen[p]
                   THEN View(p)
                   ELSE IF op'[p] = "nil"
                        THEN onSuccess(View(p), View(p).state, now)
                        ELSE onFailure(View(p), View(p).state, now)
            /\ \A q \in Callers \ {p} : pc'[q] = pc[q] /\ gen'[q] = gen[q]
            /\ now' = now]_vars

\* Two calls of one generation overlapped: the failure of the first was
\* accounted and tripped the breaker, the completion of the second, which
\* came after, was discarded.
C28_Witness ==
    \E p, q \in Callers :
        /\ p # q /\ held[p] = held[q]
        /\ pc[p] = "span" /\ acct[p].done /\ ~acct[p].stale
        /\ acct[p].from = StateClosed /\ acct[p].to = StateOpen
        /\ pc[q] = "span" /\ acct[q].done /\ acct[q].stale
        /\ acct[q].from = StateOpen /\ acct[q].to = StateOpen
        /\ Cb(p).state = StateOpen /\ Cb(p).generation = 1
        /\ Cb(p).counts = ZeroCounts

\* ----------------------------------------------------------------- C29 ----
\* C29 as stated: the value Stats() returns for a breaker, and each entry of
\* GetStats(), is what the breaker's fields hold together at one instant:
\* the fields as they are, or as a State() call running at the time leaves
\* them.
C29_AsStated ==
    /\ stats.call = "Stats"
       => stats.last[1]
            \in {StatsOf(heap[stats.b])}
                  \cup {StatsOf(c) : c \in Writing(stats.b)}
    /\ stats.call = "GetStats"
       => \A n \in DOMAIN stats.last[1] :
             stats.last[1][n]
               \in {StatsOf(heap[registry[n]])}
                     \cup {StatsOf(c) : c \in Writing(registry[n])}

\* ----------------------------------------------------------------- C30 ----
\* C30 as stated: a step changes a breaker's lastStateChange only if it
\* changes the breaker's state, and a step that changes the state sets
\* lastStateChange to the time the transition was made at (the clock
\* reading of the call that makes it).
C30_AsStated ==
    [][\A b \in Breakers :
         /\ heap'[b].lastStateChange # heap[b].lastStateChange
            => heap'[b].state # heap[b].state
         /\ heap'[b].state # heap[b].state
            => heap'[b].lastStateChange
                 \in {now} \cup {rd[p].t : p \in RLocked(b)}]_vars

\* ----------------------------------------------------------------- C31 ----
\* C31 as stated: with the gobreaker-based Manager at most one wrapper is
\* ever constructed for a name, every GetBreaker call that has returned
\* holds the wrapper registered under its name, also when calls are
\* concurrent, and no access to the registry map fails.
C31_AsStated ==
    /\ \A n \in Names :
          Cardinality({b \in DOMAIN heap : heap[b].name = n}) <= 1
    /\ \A p \in Callers :
          /\ pc[p] # "fatal"
          /\ (pc[p] = "idle" /\ held[p] # NoBreaker)
             => held[p] = registry[gbArgs[p].name]

\* ----------------------------------------------------------------- C32 ----
\* A step of the rejection path of caller p's Execute: the admission check
\* that rejects, or the State() call made for the log line (its read, or its
\* write-back).
RejectionStep(p) ==
    \/ AdmissionCheck(p) /\ pc'[p] = "rej"
    \/ pc[p] = "rej" /\ pc'[p] # "rej"
    \/ /\ pc[p] = "rlocked" /\ pc'[p] # "rlocked" /\ rd[p].to = "idle"
       /\ err[p] \in {ErrCircuitOpen, ErrTooManyRequests}

C33_OnceEach ==
    [][\A p \in Callers :
         /\ (AdmissionCheck(p) /\ pc'[p] = "fn")
            => /\ op'[p] = "running" /\ ~acct'[p].done
               /\ gen'[p] = heap'[held[p]].generation
         /\ (pc[p] = "fn" /\ pc'[p] = "fn")
            => gen'[p] = gen[p] /\ op'[p] = op[p] /\ acct'[p] = acct[p]
         /\ Completes(p)
            => /\ op[p] = "running" /\ ~acct[p].done
               /\ op'[p] \in OpOutcomes /\ acct'[p].done
               /\ heap'[held[p]]
                    = afterRequest(Cb(p), gen[p], op'[p] = "nil", now)
         /\ (pc[p] \in {"span", "panicking", "rlocked"} /\ pc'[p] # pc[p]
               /\ op[p] # "none")
            => /\ acct[p].done /\ op[p] \in OpOutcomes
               /\ heap'[held[p]].counts = Cb(p).counts
               /\ pc'[p] \in {"idle", "rlocked"}
         /\ (pc[p] = "panicking") => op[p] = "panic"]_vars

\* Two admitted calls have ended, one with nil and one with a panic, and
\* the Closed breaker has counted one success and one failure.
C33_Witness ==
    \E p, q \in Callers :
        /\ held[p] = held[q]
        /\ pc[p] = "panicking" /\ op[p] = "panic"
        /\ acct[p].done /\ ~acct[p].stale
        /\ pc[q] = "span" /\ op[q] = "nil"
        /\ acct[q].done /\ ~acct[q].stale
        /\ Cb(p).state = StateClosed /\ Cb(p).generation = 0
        /\ Cb(p).counts.Requests = 2
        /\ Cb(p).counts.TotalSuccesses = 1
        /\ Cb(p).counts.TotalFailures = 1

\* ----------------------------------------------------------------- C34 ----
\* What holds of an Open breaker: no counter is set and expiry is the time
\* it entered Open plus Timeout.
OpenCounters(cb) ==
    /\ cb.counts = ZeroCounts
    /\ cb.expiry = cb.lastStateChange + cb.config.Timeout

\* What holds of a HalfOpen breaker apart from the bound on its successes.
HalfOpenCounters(cb) ==
    /\ cb.counts.Requests <= cb.config.MaxRequests
    /\ cb.counts.TotalFailures = 0
    /\ cb.counts.ConsecutiveFailures = 0
    /\ cb.counts.ConsecutiveSuccesses = cb.counts.TotalSuccesses
    /\ cb.counts.TotalSuccesses <= cb.counts.Requests
    /\ IsZero(cb.expiry)

\* C34 as stated: in every reachable state an Open breaker satisfies
\* OpenCounters and a HalfOpen breaker satisfies HalfOpenCounters with
\* consecutiveSuccesses < MaxRequests, whatever its configuration.
C34_AsStated ==
    \A b \in Breakers :
        /\ heap[b].state = StateOpen => OpenCounters(heap[b])
        /\ heap[b].state = StateHalfOpen
            => /\ HalfOpenCounters(heap[b])
               /\ heap[b].counts.ConsecutiveSuccesses
                    < heap[b].config.MaxRequests

\* C34: in every reachable state an Open breaker has all five counters 0
\* and expiry = time of entering Open + Timeout; a HalfOpen breaker has
\* requests <= MaxRequests, totalFailures = consecutiveFailures = 0,
\* consecutiveSuccesses = totalSuccesses and expiry cleared, and
\* consecutiveSuccesses < MaxRequests when MaxRequests >= 1 (with
\* MaxRequests 0 both are 0).
C34_CounterInvariants ==
    \A b \in Breakers :
        /\ heap[b].state = StateOpen => OpenCounters(heap[b])
        /\ heap[b].state = StateHalfOpen
            => /\ HalfOpenCounters(heap[b])
               /\ IF heap[b].config.MaxRequests >= 1
                  THEN heap[b].counts.ConsecutiveSuccesses
                         < heap[b].config.MaxRequests
                  ELSE heap[b].counts.ConsecutiveSuccesses = 0

\* A HalfOpen breaker with MaxRequests 2 has admitted both probes and one
\* of them has succeeded.
C34_Witness ==
    \E b \in Breakers :
        /\ heap[b].state = StateHalfOpen
        /\ heap[b].config.MaxRequests = 2
        /\ heap[b].counts.Requests = 2
        /\ heap[b].counts.TotalSuccesses = 1
        /\ heap[b].counts.ConsecutiveSuccesses = 1
        /\ \E p \in Callers : pc[p] = "fn" /\ held[p] = b
                              /\ gen[p] = heap[b].generation

\* ----------------------------------------------------------------- C35 ----
\* C35 as stated: a step changes the state or the generation of a HalfOpen
\* breaker only if it is the completion of a probe admitted in the current
\* HalfOpen generation; and while MaxRequests probes are admitted and none
\* has completed, an admission check is answered ErrTooManyRequests.
C35_AsStated ==
    [][/\ \A b \in Breakers :
            (/\ heap[b].state = StateHalfOpen
             /\ \/ heap'[b].state # StateHalfOpen
                \/ heap'[b].generation # heap[b].generation)
            => \E p \in Callers :
                  /\ Completes(p) /\ held[p] = b
                  /\ gen[p] = heap[b].generation
       /\ \A p \in Callers :
            (/\ AdmissionCheck(p)
             /\ Cb(p).state = StateHalfOpen
             /\ Cb(p).counts.Requests = Cb(p).config.MaxRequests
             /\ Cb(p).counts.TotalSuccesses = 0)
            => /\ err'[p] = ErrTooManyRequests /\ pc'[p] = "rej"
               /\ heap'[held[p]] = Cb(p)]_vars

\* ----------------------------------------------------------------- C36 ----
\* C36: no caller waits for ever.  A caller that holds a breaker's lock (a
\* State() call in its write-back) can always take its next step: it never
\* waits for the registry lock or any other lock; a caller that holds the
\* registry lock waits for a breaker lock only; and every call in progress
\* (GetBreaker, GetStats, Execute, State()) returns, given that wrapped
\* operations return.
C36_DeadlockFree ==
    /\ [](\A p \in Callers :
            /\ pc[p] = "rlocked" => ENABLED StateApply(p)
            /\ pc[p] = "gs"
                => (ENABLED GetStatsRead(p)
                      \/ \E q \in Callers : pc[q] = "rlocked"))
    /\ \A p \in Callers : (pc[p] # "idle") ~> (pc[p] = "idle")

\* GetStats holds the registry lock and is about to read a registered
\* breaker whose lock a State() call holds for its write-back.
C36_Witness ==
    \E p, q \in Callers :
        /\ pc[p] = "gs"
        /\ pc[q] = "rlocked" /\ \E n \in Names : registry[n] = held[q]
        /\ now > 0

====
